---- MODULE Spec2Model ----
(***************************************************************************)
(* Playback orchestration of SoundBot: services/voice.py, VoiceService.    *)
(* One guild (session) is modelled.  The asyncio event loop is single      *)
(* threaded: a facade command without a suspending await is one atomic     *)
(* action; _play_next is cut at its suspension points (the connect and the *)
(* done_event.wait()) and at its recursive calls.  `running` names the     *)
(* task that is in the middle of a synchronous recursive call chain; no    *)
(* other coroutine runs until it suspends or returns.                      *)
(*                                                                         *)
(* The transport (discord.VoiceClient / AudioPlayer) is modelled by what   *)
(* the service can observe of it: is_connected, channel, and the _player   *)
(* it holds (playing or paused) together with the task whose after_play    *)
(* callback the player will call when it ends.                             *)
(***************************************************************************)
EXTENDS Integers, Sequences, FiniteSets, TLC

\* ------------------------------------------------------------------ bounds
MaxItems == 3        \* QueueItem objects created in one behaviour
MaxTasks == 2        \* _play_next tasks alive at the same time
MaxTime  == 2        \* clock ticks (datetime.now() in whole seconds)
MaxClients == 1      \* VoiceClient objects existing at the same time
MaxUsers == 5        \* non-bot members of the guild
MaxGuilds == 2       \* guilds the bot is in
MaxGuildItems == 2   \* QueueItem objects created when several guilds are active

\* VoiceService._activity_timeout, in seconds.
ActivityTimeout == 1800

Items    == 1..MaxItems
Tasks    == 1..MaxTasks
Clients  == 1..MaxClients
Channels == {1, 2}
Users    == 1..MaxUsers
Guilds   == 1..MaxGuilds
None     == 0

VARIABLES
  queue,               \* GuildPlaybackState.queue: sequence of item ids
  current,             \* GuildPlaybackState.current: item id or None
  current_started_at,  \* clock value or -1 for None
  is_paused,           \* GuildPlaybackState.is_paused
  voice_client,        \* GuildPlaybackState.voice_client: client id or None
  seek_position,       \* QueueItem.seek_position, per item id
  nextItem,            \* id of the next QueueItem object to be constructed
  connected,           \* clients for which is_connected() is true
  vc_channel,          \* VoiceClient.channel per client
  player,              \* VoiceClient._player: the task whose after_play it carries, or None
  player_paused,       \* AudioPlayer paused (not _resumed) per client
  pc,                  \* position of each _play_next task
  item,                \* local variable `item` of each task
  channel,             \* local variable `channel` of each task
  done_event,          \* done_event of the task's current _play_next frame is set
  scheduled,           \* tasks whose done_event.set after_play has handed to the loop and the loop has not run
  running,             \* task in a synchronous call chain, or None
  disc_pc,             \* position of the coroutine running VoiceService.disconnect
  now,                 \* the clock
  ret,                 \* (success, message) of the last facade command
  ever_started,        \* history: the items for which voice_client.play has succeeded
  clip_pos,            \* history: offset inside its clip up to which each item has been streamed
  inserts,             \* history: per item, whether it was inserted at the front, and ahead of which items
  watch,               \* history: the last interrupting play_now and what followed it
  stopped_paused,      \* history: a stop has succeeded while is_paused was set
  discard,             \* history: items that were current or queued when a disconnect was called
  tries,               \* per task: frames of _play_next suspended in the call of line 269
  h_pc,                \* position of the coroutine running on_voice_state_update
  h_channel,           \* the channel that coroutine connects to
  fb_in,               \* arguments and environment of a find_best_channel call
  fb_out,              \* what that call returned
  guild,               \* the guild whose commands and loop steps are being taken
  parked,              \* VoiceService._states: the GuildPlaybackState, transport and tasks of the other guilds
  reg,                 \* the keys of VoiceService._states in insertion order
  activity,            \* VoiceService._user_activity[guild]: time of the last record, or Never
  da_pc,               \* position of the coroutine running disconnect_all
  da_todo,             \* the guild ids disconnect_all has still to visit
  da_log,              \* history: per guild, how its disconnect inside disconnect_all ended
  scenario,            \* the commands the users issue besides queue_sound, skip and stop
  user,                \* QueueItem.user, per item id: a member id or None
  lock_held            \* history: the last step was a command run inside `async with self._locks[...]`

svars == <<queue, current, current_started_at, is_paused, voice_client, seek_position>>
tvars == <<connected, vc_channel, player, player_paused>>
lvars == <<pc, item, channel, done_event, scheduled, running, disc_pc>>
hvars == <<ever_started, clip_pos, inserts, watch, stopped_paused>>
fvars == <<tries, h_pc, h_channel>>
qvars == <<discard, tries, h_pc, h_channel>>
xvars == <<fb_in, fb_out>>
gvars == <<guild, parked, reg, activity, da_pc, da_todo, da_log, scenario, user, lock_held>>
vars  == <<queue, current, current_started_at, is_paused, voice_client, seek_position,
           nextItem, connected, vc_channel, player, player_paused,
           pc, item, channel, done_event, scheduled, running, disc_pc, now, ret,
           ever_started, clip_pos, inserts, watch, stopped_paused, discard,
           tries, h_pc, h_channel, fb_in, fb_out,
           guild, parked, reg, activity, da_pc, da_todo, da_log, scenario, user, lock_held>>

NoRet == [op |-> "none", ok |-> FALSE, n |-> 0]
NoWatch == [mode |-> "off", z |-> None, x |-> None, off |-> 0]
NoDiscard == [seen |-> {}, done |-> {}]

\* find_best_channel: user.voice.channel is a channel that is not a
\* discord.VoiceChannel (a stage channel); no call has returned yet.
Stage == 3
Unset == -1
\* A user without an entry in _user_activity[guild_id].
Never == -1

\* The arguments and the guild of a find_best_channel call: the requesting
\* user (None or user 1), the channel each user is in (None, a voice channel,
\* or for the requester a stage channel), the channel the one bot member is
\* in, each user's last recorded activity, and the time of the call.
FbInputs ==
  [user : {None, 1},
   loc : {l \in [Users -> {None} \cup Channels \cup {Stage}] :
            \A u \in Users : l[u] = Stage => u = 1},
   bot_loc : {None} \cup Channels,
   last_active : [Users -> {Never, 0, 1}],
   at : {ActivityTimeout}]
NoInput ==
  [user |-> None, loc |-> [u \in Users |-> None], bot_loc |-> None,
   last_active |-> [u \in Users |-> Never], at |-> ActivityTimeout]

\* The session of a guild as a record: its GuildPlaybackState, its voice
\* clients, its tasks and coroutines, its activity record.
Session ==
  [queue |-> queue, current |-> current, current_started_at |-> current_started_at,
   is_paused |-> is_paused, voice_client |-> voice_client,
   connected |-> connected, vc_channel |-> vc_channel, player |-> player,
   player_paused |-> player_paused,
   pc |-> pc, item |-> item, channel |-> channel, done_event |-> done_event, scheduled |-> scheduled,
   disc_pc |-> disc_pc, tries |-> tries, h_pc |-> h_pc, h_channel |-> h_channel,
   activity |-> activity]

\* GuildPlaybackState() (lines 41-50) with no transport and no task.
BlankSession ==
  [queue |-> << >>, current |-> None, current_started_at |-> -1,
   is_paused |-> FALSE, voice_client |-> None,
   connected |-> {}, vc_channel |-> [c \in Clients |-> None],
   player |-> [c \in Clients |-> None],
   player_paused |-> [c \in Clients |-> FALSE],
   pc |-> [t \in Tasks |-> "free"], item |-> [t \in Tasks |-> None],
   channel |-> [t \in Tasks |-> None], done_event |-> [t \in Tasks |-> FALSE], scheduled |-> {},
   disc_pc |-> "idle", tries |-> [t \in Tasks |-> 0], h_pc |-> "idle",
   h_channel |-> None, activity |-> Never]

\* The state of a session that _get_state has just created.
InitSession ==
  /\ queue = << >>
  /\ current = None
  /\ current_started_at = -1
  /\ is_paused = FALSE
  /\ voice_client = None
  /\ seek_position = [i \in Items |-> 0]
  /\ nextItem = 1
  /\ connected = {}
  /\ vc_channel = [c \in Clients |-> None]
  /\ player = [c \in Clients |-> None]
  /\ player_paused = [c \in Clients |-> FALSE]
  /\ pc = [t \in Tasks |-> "free"]
  /\ item = [t \in Tasks |-> None]
  /\ channel = [t \in Tasks |-> None]
  /\ done_event = [t \in Tasks |-> FALSE]
  /\ scheduled = {}
  /\ running = None
  /\ disc_pc = "idle"
  /\ now = 0
  /\ ret = NoRet
  /\ ever_started = {}
  /\ clip_pos = [i \in Items |-> 0]
  /\ inserts = [i \in Items |-> [pn |-> FALSE, ahead |-> {}]]
  /\ watch = NoWatch
  /\ stopped_paused = FALSE
  /\ discard = NoDiscard
  /\ tries = [t \in Tasks |-> 0]
  /\ h_pc = "idle"
  /\ h_channel = None
  /\ activity = Never
  /\ guild = 1
  /\ parked = [g \in Guilds |-> BlankSession]
  /\ reg = << >>
  /\ da_pc = "idle"
  /\ da_todo = << >>
  /\ da_log = [g \in Guilds |-> "none"]
  /\ user = [i \in Items |-> None]
  /\ lock_held = FALSE

Init ==
  /\ InitSession
  /\ fb_in = NoInput
  /\ fb_out = Unset
  /\ scenario = "any"

\* ------------------------------------------------------------- transport
\* VoiceClient.is_playing(): a player exists, is resumed and has not ended.
is_playing(c) == player[c] # None /\ ~player_paused[c]

\* VoiceClient.is_paused(): a player exists, is not resumed and has not ended.
vc_is_paused(c) == player[c] # None /\ player_paused[c]

\* VoiceClient.is_connected()
is_connected(c) == c \in connected

\* Effect of VoiceClient.stop() on the loop's callbacks: the player ends and
\* after_play hands done_event.set of the frame that started it to the loop
\* with call_soon_threadsafe (line 243); the event itself is not set yet.
StopDone(c) ==
  IF player[c] # None THEN scheduled \cup {player[c]} ELSE scheduled

\* Effect of VoiceClient.stop() on _player.
StopPlayer(c) == [player EXCEPT ![c] = None]

\* channel.connect raises at once when the guild already has a voice client:
\* a live one, one that is being connected, or one whose disconnect has not
\* finished.
GuildHasClient ==
  \/ connected # {}
  \/ \E u \in Tasks : pc[u] = "connecting"
  \/ h_pc = "connecting"
  \/ disc_pc = "awaiting"

\* The item the player of client c is streaming.
Streaming(c) == IF is_playing(c) THEN item[player[c]] ELSE None

\* --------------------------------------------------------------- tasks
Live(t) == pc[t] # "free"
LiveTasks == {t \in Tasks : Live(t)}
CanSpawn == \E t \in Tasks : pc[t] = "free"
FreeTask == CHOOSE t \in Tasks : pc[t] = "free" /\ \A u \in Tasks : pc[u] = "free" => t <= u

\* asyncio.create_task(self._play_next(guild)): the task is scheduled, it
\* has not run yet.
CreateTask == [pc EXCEPT ![FreeTask] = "entry"]

Range(q) == {q[k] : k \in 1..Len(q)}

\* ------------------------------------------------------------ the loop
\* PlaySection whose exception handler returns instead of calling
\* _play_next again.
PlaySection_noRetry(t, c, it, cur, bad, playRaises) ==
  LET raises == bad \/ playRaises
  IN /\ current_started_at' = IF bad THEN current_started_at ELSE now
     /\ IF raises
        THEN /\ current' = None
             /\ pc' = [pc EXCEPT ![t] = "free"]
             /\ running' = None
             /\ UNCHANGED <<player, player_paused, done_event, scheduled>>
        ELSE /\ current' = cur
             /\ player' = [player EXCEPT ![c] = t]
             /\ player_paused' = [player_paused EXCEPT ![c] = FALSE]
             /\ done_event' = [done_event EXCEPT ![t] = FALSE]
             /\ UNCHANGED scheduled
             /\ pc' = [pc EXCEPT ![t] = "waiting"]
             /\ running' = None

\* Lines 232-262 of _play_next, entered with a voice client c in hand:
\* create the source (raises when `bad`), stamp current_started_at, call
\* voice_client.play (playRaises: the client is not connected or is already
\* playing), then suspend in done_event.wait().  An exception is caught by
\* the frame's own handler (lines 271-274): current is cleared and
\* _play_next is called again.  `cur` is the value of state.current when
\* the section is entered.
PlaySection(t, c, it, cur, bad, playRaises) ==
  LET raises == bad \/ playRaises
  IN /\ current_started_at' = IF bad THEN current_started_at ELSE now
     /\ IF raises
        THEN /\ current' = None
             /\ pc' = [pc EXCEPT ![t] = "entry"]
             /\ running' = t
             /\ UNCHANGED <<player, player_paused, done_event, scheduled>>
        ELSE /\ current' = cur
             /\ player' = [player EXCEPT ![c] = t]
             /\ player_paused' = [player_paused EXCEPT ![c] = FALSE]
             /\ done_event' = [done_event EXCEPT ![t] = FALSE]
             /\ UNCHANGED scheduled
             /\ pc' = [pc EXCEPT ![t] = "waiting"]
             /\ running' = None

\* _play_next gives up on the popped item and returns (lines 220-223 and
\* 227-230).
GiveUp(t) ==
  /\ current' = None
  /\ pc' = [pc EXCEPT ![t] = "free"]
  /\ running' = None

\* One invocation of _play_next from its entry (line 202) to its first
\* suspension, recursive call or return.  Inputs: `missing` (the popped
\* item's file does not exist), `ch` (what find_best_channel returns for
\* the item's user, None when no channel is populated), `bad` (creating the
\* audio source raises).
PlayNextEntry(t, missing, ch, bad) ==
  /\ pc[t] = "entry"
  /\ running \in {None, t}
  /\ UNCHANGED <<is_paused, seek_position, nextItem, connected, vc_channel, disc_pc,
                 now, ret>>
  /\ IF queue = << >>
     THEN /\ GiveUp(t)
          /\ UNCHANGED <<queue, current_started_at, voice_client, player, player_paused,
                         item, channel, done_event, scheduled>>
     ELSE LET it == Head(queue) IN
          /\ queue' = Tail(queue)
          /\ item' = [item EXCEPT ![t] = it]
          /\ IF missing
             THEN \* line 215: recursive call, current keeps the missing item
                  /\ current' = it
                  /\ running' = t
                  /\ UNCHANGED <<current_started_at, voice_client, player, player_paused,
                                 pc, channel, done_event, scheduled>>
             ELSE IF ch = None
             THEN \* lines 220-223
                  /\ GiveUp(t)
                  /\ UNCHANGED <<current_started_at, voice_client, player, player_paused,
                                 channel, done_event, scheduled>>
             ELSE IF voice_client # None /\ is_connected(voice_client)
                     /\ vc_channel[voice_client] = ch
             THEN \* connect returns the live client at once (lines 148-151)
                  /\ channel' = [channel EXCEPT ![t] = ch]
                  /\ UNCHANGED voice_client
                  /\ PlaySection(t, voice_client, it, it, bad, is_playing(voice_client))
             ELSE IF voice_client # None /\ is_connected(voice_client)
             THEN \* move_to(channel) suspends (line 156)
                  /\ current' = it
                  /\ channel' = [channel EXCEPT ![t] = ch]
                  /\ pc' = [pc EXCEPT ![t] = "moving"]
                  /\ running' = None
                  /\ UNCHANGED <<current_started_at, voice_client, player, player_paused,
                                 done_event, scheduled>>
             ELSE IF voice_client # None
             THEN \* stale client: disconnect(force=True) suspends (lines 160-163)
                  /\ current' = it
                  /\ channel' = [channel EXCEPT ![t] = ch]
                  /\ pc' = [pc EXCEPT ![t] = "cleaning"]
                  /\ running' = None
                  /\ UNCHANGED <<current_started_at, voice_client, player, player_paused,
                                 done_event, scheduled>>
             ELSE IF ~GuildHasClient
             THEN \* channel.connect(...) suspends (line 172)
                  /\ current' = it
                  /\ channel' = [channel EXCEPT ![t] = ch]
                  /\ pc' = [pc EXCEPT ![t] = "connecting"]
                  /\ running' = None
                  /\ UNCHANGED <<current_started_at, voice_client, player, player_paused,
                                 done_event, scheduled>>
             ELSE \* channel.connect raises at once; connect returns None
                  \* (lines 176-188), _play_next gives up (lines 227-230)
                  /\ GiveUp(t)
                  /\ UNCHANGED <<current_started_at, voice_client, player, player_paused,
                                 channel, done_event, scheduled>>

\* The forced disconnect of a stale client returns (lines 163-166); then
\* channel.connect is called (line 172).
CleanDone(t) ==
  /\ pc[t] = "cleaning"
  /\ running = None
  /\ voice_client' = None
  /\ IF ~GuildHasClient
     THEN /\ pc' = [pc EXCEPT ![t] = "connecting"]
          /\ UNCHANGED current
     ELSE /\ pc' = [pc EXCEPT ![t] = "free"]
          /\ current' = None
  /\ UNCHANGED <<queue, current_started_at, is_paused, seek_position, nextItem, tvars,
                 item, channel, done_event, scheduled, running, disc_pc, now, ret>>

\* channel.connect returns (ok) or raises (~ok); then the rest of connect
\* and of _play_next up to the next suspension.
ConnectDone(t, ok, bad) ==
  /\ pc[t] = "connecting"
  /\ running = None
  /\ UNCHANGED <<queue, is_paused, seek_position, nextItem, item, channel, disc_pc,
                 now, ret>>
  /\ IF ok
     THEN LET c == CHOOSE x \in Clients : x \notin connected /\ x # voice_client IN
          /\ voice_client' = c
          /\ connected' = connected \cup {c}
          /\ vc_channel' = [vc_channel EXCEPT ![c] = channel[t]]
          /\ PlaySection(t, c, item[t], current, bad, FALSE)
     ELSE \* except branch of connect (lines 176-188); a voice client stored
          \* meanwhile would have made channel.connect raise at once
          /\ voice_client = None
          /\ GiveUp(t)
          /\ UNCHANGED <<current_started_at, voice_client, connected, vc_channel,
                         player, player_paused, done_event, scheduled>>

\* The effect of a completed move_to(ch): the guild's live voice client is in
\* channel ch.
Moved(ch) == [c \in Clients |-> IF c \in connected THEN ch ELSE vc_channel[c]]

\* move_to returns (ok) or raises (~ok).  When it returns, connect returns
\* state.voice_client as it is then (line 157) and _play_next goes on from
\* line 227.  When it raises, the exception leaves connect and the frame of
\* _play_next that called it (line 226 is outside the try); the innermost
\* frame suspended in the call of line 269 catches it (lines 271-274), and
\* without such a frame the task ends with the exception, current left as
\* it is.
MoveDone(t, ok, bad) ==
  /\ pc[t] = "moving"
  /\ running = None
  /\ UNCHANGED <<queue, is_paused, voice_client, seek_position, nextItem, connected,
                 item, channel, disc_pc, now, ret>>
  /\ IF ok
     THEN /\ vc_channel' = Moved(channel[t])
          /\ IF voice_client = None
             THEN /\ GiveUp(t)
                  /\ UNCHANGED <<current_started_at, player, player_paused, done_event, scheduled>>
             ELSE PlaySection(t, voice_client, item[t], current, bad,
                              ~is_connected(voice_client) \/ is_playing(voice_client))
     ELSE /\ IF tries[t] > 0
             THEN /\ current' = None
                  /\ pc' = [pc EXCEPT ![t] = "entry"]
                  /\ running' = t
             ELSE /\ pc' = [pc EXCEPT ![t] = "free"]
                  /\ UNCHANGED <<current, running>>
          /\ UNCHANGED <<current_started_at, vc_channel, player, player_paused,
                         done_event, scheduled>>

\* done_event.wait() returns (lines 262-269).
PlayNextWake(t) ==
  /\ pc[t] = "waiting"
  /\ done_event[t]
  /\ running = None
  /\ current_started_at' = -1
  /\ IF ~is_paused
     THEN /\ pc' = [pc EXCEPT ![t] = "entry"]
          /\ running' = t
     ELSE /\ pc' = [pc EXCEPT ![t] = "free"]
          /\ running' = None
  /\ UNCHANGED <<queue, current, is_paused, voice_client, seek_position, nextItem,
                 tvars, item, channel, done_event, scheduled, disc_pc, now, ret>>

\* The loop runs a done_event.set that after_play has handed to it (line 243):
\* only now is the event of task t's frame set.
DoneEventSet(t) ==
  /\ running = None
  /\ t \in scheduled
  /\ done_event' = [done_event EXCEPT ![t] = TRUE]
  /\ scheduled' = scheduled \ {t}
  /\ UNCHANGED <<svars, nextItem, tvars, pc, item, channel, running, disc_pc, now, ret>>

\* The player of client c reaches the end of its source: the player thread
\* calls after_play, which hands done_event.set to the loop (lines 240-243).
PlayerFinished(c) ==
  /\ running = None
  /\ is_playing(c)
  /\ scheduled' = StopDone(c) /\ UNCHANGED done_event
  /\ player' = StopPlayer(c)
  /\ UNCHANGED <<svars, nextItem, connected, vc_channel, player_paused,
                 pc, item, channel, running, disc_pc, now, ret>>

\* ------------------------------------------------------------- facade
\* queue_sound line 304: "if nothing is playing, start playing".
NothingPlaying == current = None /\ ~is_paused

\* queue_sound lines 298-301: the queue after the insert.
Inserted(q, it, play_next) == IF play_next THEN <<it>> \o q ELSE Append(q, it)

\* queue_sound line 310: the reported position.
Position(q, play_next) == IF play_next THEN 1 ELSE Len(q)

\* VoiceService.queue_sound (lines 276-312).  n = 0 is "Playing <name>",
\* n > 0 is "Queued <name> (position n)".
queue_sound(play_next, exists) ==
  /\ running = None
  /\ nextItem <= MaxItems
  /\ IF ~exists
     THEN /\ ret' = [op |-> "queue_sound", ok |-> FALSE, n |-> 0]
          /\ UNCHANGED <<svars, nextItem, tvars, lvars, now>>
     ELSE LET it == nextItem
              q  == Inserted(queue, it, play_next)
          IN /\ NothingPlaying => CanSpawn
             /\ queue' = q
             /\ nextItem' = nextItem + 1
             /\ IF NothingPlaying
                THEN /\ pc' = CreateTask
                     /\ ret' = [op |-> "queue_sound", ok |-> TRUE, n |-> 0]
                ELSE /\ UNCHANGED pc
                     /\ ret' = [op |-> "queue_sound", ok |-> TRUE, n |-> Position(q, play_next)]
             /\ UNCHANGED <<current, current_started_at, is_paused, voice_client,
                            seek_position, tvars, item, channel, done_event, scheduled, running,
                            disc_pc, now>>

\* play_now line 350: something is playing.
Interrupting == current # None /\ voice_client # None /\ is_playing(voice_client)

\* SavedSeek that forgets the offset the item was started with.
SavedSeek_elapsedOnly ==
  IF current_started_at # -1
  THEN now - current_started_at
  ELSE seek_position[current]

\* play_now lines 352-355: the seek position saved for the interrupted item.
SavedSeek ==
  IF current_started_at # -1
  THEN seek_position[current] + (now - current_started_at)
  ELSE seek_position[current]

\* play_now lines 366 and 372: the two front inserts.
Requeued(q, cur, it, interrupt) == <<it>> \o (IF interrupt THEN <<cur>> \o q ELSE q)

\* VoiceService.play_now (lines 330-379).
play_now(exists) ==
  /\ running = None
  /\ nextItem <= MaxItems
  /\ IF ~exists
     THEN /\ ret' = [op |-> "play_now", ok |-> FALSE, n |-> 0]
          /\ UNCHANGED <<svars, nextItem, tvars, lvars, now>>
     ELSE LET it == nextItem
              interrupt == Interrupting
              saved == SavedSeek
          IN /\ current = None => CanSpawn
             /\ seek_position' =
                  IF interrupt THEN [seek_position EXCEPT ![current] = saved]
                  ELSE seek_position
             /\ scheduled' = IF interrupt THEN StopDone(voice_client) ELSE scheduled
             /\ UNCHANGED done_event
             /\ player' = IF interrupt THEN StopPlayer(voice_client) ELSE player
             /\ queue' = Requeued(queue, current, it, interrupt)
             /\ nextItem' = nextItem + 1
             /\ pc' = IF current = None THEN CreateTask ELSE pc
             /\ ret' = [op |-> "play_now", ok |-> TRUE, n |-> 0]
             /\ UNCHANGED <<current, current_started_at, is_paused, voice_client,
                            connected, vc_channel, player_paused, item, channel, running,
                            disc_pc, now>>

\* skip line 388 (and stop line 410): the transport is playing.
TransportPlaying == voice_client # None /\ is_playing(voice_client)

\* VoiceService.skip (lines 381-395).  n tells the failure messages apart:
\* 1 "Nothing is playing or queued", 2 "Nothing is currently playing".
skip ==
  /\ running = None
  /\ IF current = None /\ queue = << >>
     THEN /\ ret' = [op |-> "skip", ok |-> FALSE, n |-> 1]
          /\ UNCHANGED <<done_event, scheduled, player>>
     ELSE IF TransportPlaying
     THEN /\ scheduled' = StopDone(voice_client) /\ UNCHANGED done_event
          /\ player' = StopPlayer(voice_client)
          /\ ret' = [op |-> "skip", ok |-> TRUE, n |-> 0]
     ELSE /\ ret' = [op |-> "skip", ok |-> FALSE, n |-> 2]
          /\ UNCHANGED <<done_event, scheduled, player>>
  /\ UNCHANGED <<svars, nextItem, connected, vc_channel, player_paused,
                 pc, item, channel, running, disc_pc, now>>

\* QueueCount that also counts the current item.
QueueCount_withCurrent(q) == Len(q) + 1

\* stop line 405: the count that is reported.
QueueCount(q) == Len(q)

\* Cleared that drops only the head of the queue.
Cleared_headOnly(q) == IF q = << >> THEN q ELSE Tail(q)

\* stop line 406: queue.clear().
Cleared(q) == << >>

\* VoiceService.stop (lines 397-417).  n is the reported queue_count.
stop ==
  /\ running = None
  /\ IF current = None /\ queue = << >>
     THEN /\ ret' = [op |-> "stop", ok |-> FALSE, n |-> 0]
          /\ UNCHANGED <<queue, is_paused, current, done_event, scheduled, player>>
     ELSE /\ queue' = Cleared(queue)
          /\ is_paused' = FALSE
          /\ IF TransportPlaying
             THEN /\ scheduled' = StopDone(voice_client) /\ UNCHANGED done_event
                  /\ player' = StopPlayer(voice_client)
             ELSE UNCHANGED <<done_event, scheduled, player>>
          /\ current' = None
          /\ ret' = [op |-> "stop", ok |-> TRUE, n |-> QueueCount(queue)]
  /\ UNCHANGED <<current_started_at, voice_client, seek_position, nextItem,
                 connected, vc_channel, player_paused,
                 pc, item, channel, running, disc_pc, now>>

\* AlreadyPaused that never answers yes.
AlreadyPaused_never == FALSE

\* pause line 426.
AlreadyPaused == is_paused

\* VoiceService.pause (lines 419-437).  n tells the failure messages apart:
\* 1 "Not connected to voice", 2 "Already paused", 3 "Nothing is playing".
pause ==
  /\ running = None
  /\ IF voice_client = None
     THEN /\ ret' = [op |-> "pause", ok |-> FALSE, n |-> 1]
          /\ UNCHANGED <<is_paused, player_paused>>
     ELSE IF AlreadyPaused
     THEN /\ ret' = [op |-> "pause", ok |-> FALSE, n |-> 2]
          /\ UNCHANGED <<is_paused, player_paused>>
     ELSE IF is_playing(voice_client)
     THEN /\ player_paused' = [player_paused EXCEPT ![voice_client] = TRUE]
          /\ is_paused' = TRUE
          /\ ret' = [op |-> "pause", ok |-> TRUE, n |-> 0]
     ELSE /\ ret' = [op |-> "pause", ok |-> FALSE, n |-> 3]
          /\ UNCHANGED <<is_paused, player_paused>>
  /\ UNCHANGED <<queue, current, current_started_at, voice_client, seek_position,
                 nextItem, connected, vc_channel, player,
                 pc, item, channel, done_event, scheduled, running, disc_pc, now>>

\* VoiceService.resume (lines 439-463).  n tells the messages apart:
\* failures 1 "Not connected to voice", 2 "Not paused", 3 "Nothing to resume";
\* successes 0 "Resumed <name>", 4 "Resumed queue playback".
resume ==
  /\ running = None
  /\ IF voice_client = None
     THEN /\ ret' = [op |-> "resume", ok |-> FALSE, n |-> 1]
          /\ UNCHANGED <<is_paused, player_paused, pc>>
     ELSE IF ~is_paused
     THEN /\ ret' = [op |-> "resume", ok |-> FALSE, n |-> 2]
          /\ UNCHANGED <<is_paused, player_paused, pc>>
     ELSE IF vc_is_paused(voice_client)
     THEN /\ player_paused' = [player_paused EXCEPT ![voice_client] = FALSE]
          /\ is_paused' = FALSE
          /\ ret' = [op |-> "resume", ok |-> TRUE, n |-> 0]
          /\ UNCHANGED pc
     ELSE /\ is_paused' = FALSE
          /\ UNCHANGED player_paused
          /\ IF queue # << >>
             THEN /\ CanSpawn
                  /\ pc' = CreateTask
                  /\ ret' = [op |-> "resume", ok |-> TRUE, n |-> 4]
             ELSE /\ UNCHANGED pc
                  /\ ret' = [op |-> "resume", ok |-> FALSE, n |-> 3]
  /\ UNCHANGED <<queue, current, current_started_at, voice_client, seek_position,
                 nextItem, connected, vc_channel, player,
                 item, channel, done_event, scheduled, running, disc_pc, now>>

\* VoiceService.get_queue, get_current, is_playing and is_paused (lines
\* 465-482): each reads the guild's state through _get_state and changes
\* nothing else; what a call leaves behind is the guild's entry in _states.
get_queue ==
  /\ running = None
  /\ UNCHANGED <<svars, nextItem, tvars, lvars, now, ret>>

\* VoiceService.disconnect (lines 190-198) up to the await of
\* voice_client.disconnect(), which stops the player and drops the
\* connection before it suspends; without a live client the whole method
\* runs at once.
disconnect_begin ==
  /\ running = None
  /\ disc_pc = "idle"
  /\ IF voice_client # None /\ is_connected(voice_client)
     THEN /\ scheduled' = StopDone(voice_client) /\ UNCHANGED done_event
          /\ player' = StopPlayer(voice_client)
          /\ connected' = connected \ {voice_client}
          /\ disc_pc' = "awaiting"
          /\ UNCHANGED <<voice_client, queue, current>>
     ELSE /\ voice_client' = None
          /\ queue' = << >>
          /\ current' = None
          /\ UNCHANGED <<done_event, scheduled, player, connected, disc_pc>>
  /\ ret' = [op |-> "disconnect", ok |-> TRUE, n |-> 0]
  /\ UNCHANGED <<current_started_at, is_paused, seek_position, nextItem, vc_channel,
                 player_paused, pc, item, channel, running, now>>

\* VoiceService.disconnect after the await (lines 195-198).
disconnect_end ==
  /\ running = None
  /\ disc_pc = "awaiting"
  /\ disc_pc' = "idle"
  /\ voice_client' = None
  /\ queue' = << >>
  /\ current' = None
  /\ UNCHANGED <<current_started_at, is_paused, seek_position, nextItem, tvars,
                 pc, item, channel, done_event, scheduled, running, now, ret>>

\* ------------------------------------------- on_voice_state_update
\* discord/client.py lines 1229-1236 and 1256-1263: connect has returned a
\* voice client and queue_sound is called (play_next False, the file exists)
\* before anything else can run.
HandlerQueue ==
  LET q == Inserted(queue, nextItem, FALSE) IN
  /\ nextItem <= MaxItems
  /\ NothingPlaying => CanSpawn
  /\ queue' = q
  /\ nextItem' = nextItem + 1
  /\ IF NothingPlaying
     THEN /\ pc' = CreateTask
          /\ ret' = [op |-> "queue_sound", ok |-> TRUE, n |-> 0]
     ELSE /\ UNCHANGED pc
          /\ ret' = [op |-> "queue_sound", ok |-> TRUE, n |-> Position(q, FALSE)]

\* on_voice_state_update calls voice_service.connect(ch) (client.py lines
\* 1228 and 1255): connect from its entry to its first suspension or return
\* (voice.py lines 144-172).
HandlerConnect(ch) ==
  /\ h_pc = "idle"
  /\ running = None
  /\ h_channel' = ch
  /\ UNCHANGED <<current, current_started_at, is_paused, voice_client, seek_position,
                 tvars, item, channel, done_event, scheduled, running, disc_pc, now>>
  /\ IF voice_client # None /\ is_connected(voice_client) /\ vc_channel[voice_client] = ch
     THEN /\ HandlerQueue
          /\ h_pc' = "idle"
     ELSE /\ UNCHANGED <<queue, nextItem, pc, ret>>
          /\ IF voice_client # None /\ is_connected(voice_client)
             THEN h_pc' = "moving"
             ELSE IF voice_client # None
             THEN h_pc' = "cleaning"
             ELSE IF ~GuildHasClient
             THEN h_pc' = "connecting"
             ELSE h_pc' = "idle"

\* The forced disconnect of the stale client returns (voice.py lines
\* 163-172).
HandlerCleanDone ==
  /\ h_pc = "cleaning"
  /\ running = None
  /\ voice_client' = None
  /\ h_pc' = IF ~GuildHasClient THEN "connecting" ELSE "idle"
  /\ UNCHANGED <<queue, current, current_started_at, is_paused, seek_position, nextItem,
                 tvars, lvars, now, ret, h_channel>>

\* channel.connect returns (ok) or raises (voice.py lines 172-188); with a
\* voice client the handler queues its sound.
HandlerConnectDone(ok) ==
  /\ h_pc = "connecting"
  /\ running = None
  /\ h_pc' = "idle"
  /\ UNCHANGED <<current, current_started_at, is_paused, seek_position, player,
                 player_paused, item, channel, done_event, scheduled, running, disc_pc, now,
                 h_channel>>
  /\ IF ok
     THEN LET c == CHOOSE x \in Clients : x \notin connected /\ x # voice_client IN
          /\ voice_client' = c
          /\ connected' = connected \cup {c}
          /\ vc_channel' = [vc_channel EXCEPT ![c] = h_channel]
          /\ HandlerQueue
     ELSE /\ voice_client = None
          /\ UNCHANGED <<voice_client, connected, vc_channel, queue, nextItem, pc, ret>>

\* move_to returns (ok) or raises (voice.py lines 156-157); an exception
\* leaves connect and ends the handler.
HandlerMoveDone(ok) ==
  /\ h_pc = "moving"
  /\ running = None
  /\ h_pc' = "idle"
  /\ UNCHANGED <<current, current_started_at, is_paused, voice_client, seek_position,
                 connected, player, player_paused, item, channel, done_event, scheduled, running,
                 disc_pc, now, h_channel>>
  /\ IF ok
     THEN /\ vc_channel' = Moved(h_channel)
          /\ IF voice_client # None
             THEN HandlerQueue
             ELSE UNCHANGED <<queue, nextItem, pc, ret>>
     ELSE UNCHANGED <<vc_channel, queue, nextItem, pc, ret>>

\* datetime.now() advances by one second.
Tick ==
  /\ running = None
  /\ now < MaxTime
  /\ now' = now + 1
  /\ UNCHANGED <<svars, nextItem, tvars, lvars, ret>>

\* ------------------------------------------------- find_best_channel
\* channel.members (line 117): the users and the bot that are in channel ch.
Members(in, ch) ==
  {[id |-> u, bot |-> FALSE] : u \in {v \in Users : in.loc[v] = ch}}
    \cup (IF in.bot_loc = ch THEN {[id |-> 0, bot |-> TRUE]} ELSE {})

\* _get_recent_users (lines 76-84) at time `at`.
RecentUsers(in, at) ==
  {u \in Users : in.last_active[u] # Never /\ at - in.last_active[u] < ActivityTimeout}

\* Line 117: the non-bot members of channel ch.
NonBot(in, ch) == {m \in Members(in, ch) : ~m.bot}

\* ChannelKey with member count first.
ChannelKey_membersFirst(in, at, ch) ==
  <<Cardinality(NonBot(in, ch)),
    Cardinality({m \in NonBot(in, ch) : m.id \in RecentUsers(in, at)})>>

\* Line 130: the sort key of a populated channel.
ChannelKey(in, at, ch) ==
  <<Cardinality({m \in NonBot(in, ch) : m.id \in RecentUsers(in, at)}),
    Cardinality(NonBot(in, ch))>>

\* Tuple comparison of Python on two keys.
KeyLess(a, b) == a[1] < b[1] \/ (a[1] = b[1] /\ a[2] < b[2])

\* Lines 115-123: guild.voice_channels in order, the populated ones kept.
RECURSIVE Populated(_, _)
Populated(in, chs) ==
  IF chs = << >> THEN << >>
  ELSE (IF NonBot(in, Head(chs)) = {} THEN << >> ELSE <<Head(chs)>>)
         \o Populated(in, Tail(chs))

\* list.sort(key=..., reverse=True) (line 130): stable, descending.
RECURSIVE InsertDesc(_, _, _, _)
InsertDesc(in, at, ch, sorted) ==
  IF sorted = << >> THEN <<ch>>
  ELSE IF KeyLess(ChannelKey(in, at, Head(sorted)), ChannelKey(in, at, ch))
  THEN <<ch>> \o sorted
  ELSE <<Head(sorted)>> \o InsertDesc(in, at, ch, Tail(sorted))

RECURSIVE SortDesc(_, _, _)
SortDesc(in, at, chs) ==
  IF chs = << >> THEN << >>
  ELSE InsertDesc(in, at, chs[Len(chs)], SortDesc(in, at, SubSeq(chs, 1, Len(chs) - 1)))

\* guild.voice_channels.
VoiceChannels == <<1, 2>>

\* VoiceService.find_best_channel (lines 86-137).
find_best_channel(in, at) ==
  IF in.user # None /\ in.loc[in.user] # None /\ in.loc[in.user] \in Channels
  THEN in.loc[in.user]
  ELSE LET populated == SortDesc(in, at, Populated(in, VoiceChannels))
       IN IF populated = << >> THEN None ELSE populated[1]

\* A call of find_best_channel returns.
FindBestChannel ==
  /\ fb_out = Unset
  /\ fb_out' = find_best_channel(fb_in, fb_in.at)
  /\ UNCHANGED <<svars, nextItem, tvars, lvars, now, ret, hvars, qvars, fb_in, gvars>>

\* ------------------------------------------------------ several guilds
\* The stored voice client is live and in channel ch.
LiveIn(ch) ==
  voice_client # None /\ is_connected(voice_client) /\ vc_channel[voice_client] = ch

\* The running synchronous code is disconnect_all, between two awaits.
DisconnectAll == -1

\* _get_state with one state for all guilds.
StateKey_shared(g) == 1

\* _get_state (lines 66-70): the key under which the state of guild g is
\* kept in _states.
StateKey(g) == g

\* _states[StateKey(g)] (lines 66-70): the session of guild g.
SessionOf(g) == IF StateKey(g) = StateKey(guild) THEN Session ELSE parked[StateKey(g)]

\* The next command, loop step or callback that is taken belongs to guild g:
\* its session is what the variables of the session hold from now on, the
\* session they held is kept in _states.  No session changes.
Switch(g) ==
  /\ g # guild
  /\ \/ running = None
     \/ running = DisconnectAll /\ da_todo # << >> /\ g = Head(da_todo)
  /\ guild' = g
  /\ IF StateKey(g) = StateKey(guild)
     THEN UNCHANGED <<parked, queue, current, current_started_at, is_paused, voice_client,
                      tvars, pc, item, channel, done_event, scheduled, disc_pc, fvars, activity>>
     ELSE LET r == parked[StateKey(g)] IN
          /\ parked' = [parked EXCEPT ![StateKey(guild)] = Session,
                                      ![StateKey(g)] = BlankSession]
          /\ queue' = r.queue
          /\ current' = r.current
          /\ current_started_at' = r.current_started_at
          /\ is_paused' = r.is_paused
          /\ voice_client' = r.voice_client
          /\ connected' = r.connected
          /\ vc_channel' = r.vc_channel
          /\ player' = r.player
          /\ player_paused' = r.player_paused
          /\ pc' = r.pc
          /\ item' = r.item
          /\ channel' = r.channel
          /\ done_event' = r.done_event
          /\ scheduled' = r.scheduled
          /\ disc_pc' = r.disc_pc
          /\ tries' = r.tries
          /\ h_pc' = r.h_pc
          /\ h_channel' = r.h_channel
          /\ activity' = r.activity
  /\ UNCHANGED <<seek_position, nextItem, running, now, ret, hvars, discard, xvars,
                 reg, da_pc, da_todo, da_log, scenario, user, lock_held>>

\* _get_state (lines 68-69): the guild of the step gets its entry in _states.
Registered == IF guild \in Range(reg) THEN reg ELSE Append(reg, guild)

\* The members a command can name as the user of the item it constructs:
\* none (the default of queue_sound and play_now, and a member the guild
\* does not find) or a member.  Where the users issue the commands of a
\* further family, every item carries a member.
ItemUsers == IF scenario \in {"any", "anonymous"} THEN {None, 1} ELSE {1}

\* QueueItem(..., user=user) (lines 295 and 371): the item a step constructs
\* carries the user the command was called with.
RecUser ==
  \E u \in ItemUsers :
     user' = IF nextItem' # nextItem THEN [user EXCEPT ![nextItem] = u] ELSE user

\* record_user_activity (lines 233-234), reached when connect has returned a
\* voice client, and called when the item `it` carries a user.
RecActivity(reached, it) ==
  activity' = IF reached /\ user[it] # None THEN now ELSE activity

\* disconnect_all, line 486: the keys of _states are copied and the loop
\* over them is entered.
DisconnectAllCall ==
  /\ da_pc = "idle"
  /\ running = None
  /\ reg # << >>
  /\ da_todo' = reg
  /\ da_log' = [g \in Guilds |-> IF g \in Range(reg) THEN "pending" ELSE "none"]
  /\ da_pc' = "loop"
  /\ running' = DisconnectAll
  /\ UNCHANGED <<svars, nextItem, tvars, pc, item, channel, done_event, scheduled, disc_pc, now, ret,
                 hvars, qvars, xvars, guild, parked, reg, activity, scenario,
                 user, lock_held>>

\* disconnect_all after the disconnect of one guild has returned (ok) or has
\* raised (lines 487-491): the exception is caught and the loop goes on.
DaAfter(ok, rest) == IF rest = << >> THEN "done" ELSE "loop"

\* Lines 486-488 and 190-198: disconnect of the next guild, up to the await
\* of voice_client.disconnect() or, without a live client, to its return.
DaDisconnect ==
  /\ da_pc = "loop"
  /\ running = DisconnectAll
  /\ da_todo # << >>
  /\ guild = Head(da_todo)
  /\ IF voice_client # None /\ is_connected(voice_client)
     THEN /\ scheduled' = StopDone(voice_client) /\ UNCHANGED done_event
          /\ player' = StopPlayer(voice_client)
          /\ connected' = connected \ {voice_client}
          /\ disc_pc' = "awaiting"
          /\ da_pc' = "awaiting"
          /\ running' = None
          /\ UNCHANGED <<voice_client, queue, current, da_todo, da_log>>
     ELSE /\ voice_client' = None
          /\ queue' = << >>
          /\ current' = None
          /\ da_todo' = Tail(da_todo)
          /\ da_log' = [da_log EXCEPT ![guild] = "ok"]
          /\ da_pc' = DaAfter(TRUE, Tail(da_todo))
          /\ running' = IF da_pc' = "loop" THEN DisconnectAll ELSE None
          /\ UNCHANGED <<done_event, scheduled, player, connected, disc_pc>>
  /\ UNCHANGED <<current_started_at, is_paused, seek_position, nextItem, vc_channel,
                 player_paused, pc, item, channel, now, ret,
                 hvars, qvars, xvars, guild, parked, reg, activity, scenario,
                 user, lock_held>>

\* voice_client.disconnect() returns (ok) and disconnect clears the session
\* (lines 195-198), or it raises and disconnect_all catches the exception
\* (lines 490-491); then the loop of line 486 goes on.
DaDisconnectEnd(ok) ==
  /\ da_pc = "awaiting"
  /\ running = None
  /\ guild = Head(da_todo)
  /\ disc_pc = "awaiting"
  /\ disc_pc' = "idle"
  /\ IF ok
     THEN /\ voice_client' = None
          /\ queue' = << >>
          /\ current' = None
     ELSE UNCHANGED <<voice_client, queue, current>>
  /\ da_todo' = Tail(da_todo)
  /\ da_log' = [da_log EXCEPT ![guild] = IF ok THEN "ok" ELSE "failed"]
  /\ da_pc' = DaAfter(ok, Tail(da_todo))
  /\ running' = IF da_pc' = "loop" THEN DisconnectAll ELSE None
  /\ UNCHANGED <<current_started_at, is_paused, seek_position, nextItem, tvars,
                 pc, item, channel, done_event, scheduled, now, ret,
                 hvars, qvars, xvars, guild, parked, reg, activity, scenario,
                 user, lock_held>>

\* ------------------------------------------------------------- history
\* The tasks whose voice_client.play succeeds in this step, and the items
\* they start streaming.
StartedTasks == {t \in Tasks : pc[t] # "waiting" /\ pc'[t] = "waiting"}
StartedNow == {item'[t] : t \in StartedTasks}

RecStarted == ever_started' = ever_started \cup StartedNow

\* A started item is streamed from its seek position on (line 252); while
\* the clock advances every item that is being streamed advances in its clip.
RecClip ==
  clip_pos' = [i \in Items |->
                 IF i \in StartedNow THEN seek_position[i]
                 ELSE IF now' # now /\ \E c \in Clients : Streaming(c) = i
                 THEN clip_pos[i] + 1
                 ELSE clip_pos[i]]

\* How the item constructed by this queue_sound call was inserted.
RecInsert(play_next) ==
  inserts' = [inserts EXCEPT ![nextItem] =
                [pn |-> play_next, ahead |-> IF play_next THEN Range(queue) ELSE {}]]

\* A facade command ends the observation of the last interrupting play_now,
\* unless a stop has closed it.
Unwatch == IF watch.mode = "stopped" THEN watch ELSE NoWatch

\* watch.mode: "armed" by a play_now that interrupts x with z; "z" once z has
\* been started, "x" once x has been started after z; "stopped" when stop is
\* the first thing that happens after the play_now.
RecWatch(cmd) ==
  watch' =
    CASE cmd = "play_now" ->
           IF Interrupting
           THEN [mode |-> "armed", z |-> nextItem, x |-> current,
                 off |-> seek_position'[current]]
           ELSE Unwatch
      [] cmd = "stop" ->
           IF watch.mode = "armed" /\ ret'.ok
           THEN [watch EXCEPT !.mode = "stopped"]
           ELSE Unwatch
      [] cmd = "command" -> Unwatch
      [] OTHER ->
           IF StartedNow = {} THEN watch
           ELSE IF watch.mode = "armed"
           THEN IF StartedNow = {watch.z} THEN [watch EXCEPT !.mode = "z"] ELSE NoWatch
           ELSE IF watch.mode = "z"
           THEN IF StartedNow = {watch.x} THEN [watch EXCEPT !.mode = "x"] ELSE NoWatch
           ELSE watch

\* disconnect lines 193-198: discard.seen holds the items that are current
\* or queued when a disconnect that suspends is called, discard.done those of
\* the disconnects that have completed.
RecDiscard(cmd) ==
  LET kept == Range(queue) \cup ({current} \ {None}) IN
  discard' =
    CASE cmd = "disconnect_begin" ->
           IF disc_pc' = "awaiting"
           THEN [discard EXCEPT !.seen = kept]
           ELSE [discard EXCEPT !.done = @ \cup kept]
      [] cmd = "disconnect_end" ->
           [seen |-> {}, done |-> discard.done \cup discard.seen]
      [] OTHER -> discard

\* The frames of each task that are suspended in the call of line 269: one
\* more when a woken frame calls _play_next, one less when such a frame
\* catches an exception that has left the call (a raising move_to, cmd =
\* "move_raised"), none when the task has ended.  An exception raised inside
\* the try of a frame is caught by that same frame and removes none.
RecFrames(cmd) ==
  tries' = [t \in Tasks |->
              IF pc'[t] = "free" THEN 0
              ELSE IF pc[t] = "waiting" /\ pc'[t] = "entry" THEN tries[t] + 1
              ELSE IF cmd = "move_raised" /\ pc[t] = "moving" /\ pc'[t] = "entry"
                   THEN tries[t] - 1
              ELSE tries[t]]

RecStoppedPaused(cmd) ==
  stopped_paused' = IF cmd = "stop" THEN stopped_paused \/ (is_paused /\ ret'.ok)
                    ELSE stopped_paused

\* ------------------------------------------------------- specifications
\* All commands on a guild whose single channel is populated, whose files
\* exist and whose connection attempts succeed.
Hist(cmd) ==
  /\ RecWatch(cmd)
  /\ RecStarted
  /\ RecClip
  /\ UNCHANGED <<inserts, stopped_paused>>
  /\ UNCHANGED qvars
  /\ UNCHANGED xvars
  /\ UNCHANGED gvars

Next ==
  \/ (\E pn \in BOOLEAN : queue_sound(pn, TRUE)) /\ Hist("command")
  \/ play_now(TRUE) /\ Hist("play_now")
  \/ skip /\ Hist("command")
  \/ stop /\ Hist("stop")
  \/ pause /\ Hist("command")
  \/ resume /\ Hist("command")
  \/ (\E t \in Tasks : PlayNextEntry(t, FALSE, 1, FALSE)) /\ Hist("step")
  \/ (\E t \in Tasks : ConnectDone(t, TRUE, FALSE)) /\ Hist("step")
  \/ (\E t \in Tasks : PlayNextWake(t)) /\ Hist("step")
  \/ (\E c \in Clients : PlayerFinished(c)) /\ Hist("step")
  \/ (\E t \in Tasks : DoneEventSet(t)) /\ Hist("step")
  \/ Tick /\ Hist("step")

Spec == Init /\ [][Next]_vars

\* Only queue_sound is called.
HistQueue ==
  /\ RecStarted
  /\ UNCHANGED <<clip_pos, watch, stopped_paused>>
  /\ UNCHANGED qvars
  /\ UNCHANGED xvars
  /\ UNCHANGED gvars

NextQueue ==
  \/ (\E pn \in BOOLEAN : queue_sound(pn, TRUE) /\ RecInsert(pn)) /\ HistQueue
  \/ (\E t \in Tasks : PlayNextEntry(t, FALSE, 1, FALSE)) /\ HistQueue /\ UNCHANGED inserts
  \/ (\E t \in Tasks : ConnectDone(t, TRUE, FALSE)) /\ HistQueue /\ UNCHANGED inserts
  \/ (\E t \in Tasks : PlayNextWake(t)) /\ HistQueue /\ UNCHANGED inserts
  \/ (\E c \in Clients : PlayerFinished(c)) /\ HistQueue /\ UNCHANGED inserts
  \/ (\E t \in Tasks : DoneEventSet(t)) /\ HistQueue /\ UNCHANGED inserts

SpecQueue == Init /\ [][NextQueue]_vars

\* The same program in an environment that can fail: files vanish, no
\* channel is populated, connecting fails, and the session is disconnected.
HistEnv(cmd) ==
  /\ RecStoppedPaused(cmd)
  /\ UNCHANGED <<ever_started, clip_pos, inserts, watch>>
  /\ UNCHANGED qvars
  /\ UNCHANGED xvars
  /\ UNCHANGED gvars

NextEnv ==
  \/ (\E pn \in BOOLEAN, exists \in BOOLEAN : queue_sound(pn, exists)) /\ HistEnv("command")
  \/ (\E exists \in BOOLEAN : play_now(exists)) /\ HistEnv("play_now")
  \/ skip /\ HistEnv("command")
  \/ stop /\ HistEnv("stop")
  \/ pause /\ HistEnv("command")
  \/ resume /\ HistEnv("command")
  \/ disconnect_begin /\ HistEnv("command")
  \/ disconnect_end /\ HistEnv("step")
  \/ (\E t \in Tasks, missing \in BOOLEAN, ch \in {None, 1} :
        PlayNextEntry(t, missing, ch, FALSE)) /\ HistEnv("step")
  \/ (\E t \in Tasks, ok \in BOOLEAN : ConnectDone(t, ok, FALSE)) /\ HistEnv("step")
  \/ (\E t \in Tasks : CleanDone(t)) /\ HistEnv("step")
  \/ (\E t \in Tasks : PlayNextWake(t)) /\ HistEnv("step")
  \/ (\E c \in Clients : PlayerFinished(c)) /\ HistEnv("step")
  \/ (\E t \in Tasks : DoneEventSet(t)) /\ HistEnv("step")

SpecEnv == Init /\ [][NextEnv]_vars

\* The failing environment, observed for what a disconnect discards.
HistDisc(cmd) ==
  /\ RecDiscard(cmd)
  /\ RecStarted
  /\ UNCHANGED fvars
  /\ UNCHANGED xvars
  /\ UNCHANGED gvars
  /\ UNCHANGED <<clip_pos, inserts, watch, stopped_paused>>

NextDisc ==
  \/ (\E pn \in BOOLEAN : queue_sound(pn, TRUE)) /\ HistDisc("command")
  \/ play_now(TRUE) /\ HistDisc("play_now")
  \/ skip /\ HistDisc("command")
  \/ stop /\ HistDisc("stop")
  \/ pause /\ HistDisc("command")
  \/ resume /\ HistDisc("command")
  \/ disconnect_begin /\ HistDisc("disconnect_begin")
  \/ disconnect_end /\ HistDisc("disconnect_end")
  \/ (\E t \in Tasks, missing \in BOOLEAN, ch \in {None, 1} :
        PlayNextEntry(t, missing, ch, FALSE)) /\ HistDisc("step")
  \/ (\E t \in Tasks, ok \in BOOLEAN : ConnectDone(t, ok, FALSE)) /\ HistDisc("step")
  \/ (\E t \in Tasks : CleanDone(t)) /\ HistDisc("step")
  \/ (\E t \in Tasks : PlayNextWake(t)) /\ HistDisc("step")
  \/ (\E c \in Clients : PlayerFinished(c)) /\ HistDisc("step")
  \/ (\E t \in Tasks : DoneEventSet(t)) /\ HistDisc("step")

SpecDisc == Init /\ [][NextDisc]_vars

\* Two populated channels: the loop and on_voice_state_update connect, move
\* and clean up while the session is disconnected; connecting and moving can
\* fail.
HistConn(cmd) ==
  /\ RecFrames(cmd)
  /\ IF cmd = "handler" THEN TRUE ELSE UNCHANGED <<h_pc, h_channel>>
  /\ UNCHANGED <<hvars, discard>>
  /\ UNCHANGED xvars
  /\ UNCHANGED gvars

NextConn ==
  \/ (\E pn \in BOOLEAN : queue_sound(pn, TRUE)) /\ HistConn("command")
  \/ stop /\ HistConn("command")
  \/ disconnect_begin /\ HistConn("command")
  \/ disconnect_end /\ HistConn("step")
  \/ (\E t \in Tasks, ch \in Channels : PlayNextEntry(t, FALSE, ch, FALSE)) /\ HistConn("step")
  \/ (\E t \in Tasks, ok \in BOOLEAN : ConnectDone(t, ok, FALSE)) /\ HistConn("step")
  \/ (\E t \in Tasks : CleanDone(t)) /\ HistConn("step")
  \/ (\E t \in Tasks : MoveDone(t, TRUE, FALSE)) /\ HistConn("step")
  \/ (\E t \in Tasks : MoveDone(t, FALSE, FALSE)) /\ HistConn("move_raised")
  \/ (\E t \in Tasks : PlayNextWake(t)) /\ HistConn("step")
  \/ (\E c \in Clients : PlayerFinished(c)) /\ HistConn("step")
  \/ (\E t \in Tasks : DoneEventSet(t)) /\ HistConn("step")
  \/ (\E ch \in Channels : HandlerConnect(ch)) /\ HistConn("handler")
  \/ HandlerCleanDone /\ HistConn("handler")
  \/ (\E ok \in BOOLEAN : HandlerConnectDone(ok)) /\ HistConn("handler")
  \/ (\E ok \in BOOLEAN : HandlerMoveDone(ok)) /\ HistConn("handler")

SpecConn == Init /\ [][NextConn]_vars

\* find_best_channel is called once, on any guild within the bounds.
InitChannel ==
  /\ InitSession
  /\ fb_in \in FbInputs
  /\ fb_out = Unset
  /\ scenario = "any"

NextChannel == FindBestChannel

SpecChannel == InitChannel /\ [][NextChannel]_vars

\* Several guilds: the commands and loop steps of each guild interleave at
\* the suspension points.
HistGuild(cmd) ==
  /\ reg' = Registered
  /\ RecUser
  /\ IF cmd = "handler" THEN TRUE ELSE UNCHANGED <<h_pc, h_channel>>
  /\ UNCHANGED <<guild, parked, da_pc, da_todo, da_log, scenario, lock_held>>
  /\ UNCHANGED <<hvars, discard, tries, xvars>>

\* The users of all guilds issue queue_sound, skip and stop and the commands
\* of one more family: pause and resume, disconnect, the join and leave
\* sounds of on_voice_state_update (which find no stale client, as nobody
\* disconnects), or the front inserts of play_now and queue_sound(play_next);
\* or they only queue items, with and without a user.
Scenarios == {"pause", "disconnect", "handler", "play_now", "anonymous"}

InitGuilds ==
  /\ InitSession
  /\ fb_in = NoInput
  /\ fb_out = Unset
  /\ scenario \in Scenarios

NextGuilds ==
  \/ queue_sound(FALSE, TRUE) /\ nextItem <= MaxGuildItems
       /\ HistGuild("command") /\ UNCHANGED activity
  \/ scenario # "anonymous" /\ skip /\ HistGuild("command") /\ UNCHANGED activity
  \/ scenario # "anonymous" /\ stop /\ HistGuild("command") /\ UNCHANGED activity
  \/ get_queue /\ HistGuild("command") /\ UNCHANGED activity
  \/ scenario = "play_now" /\ queue_sound(TRUE, TRUE) /\ nextItem <= MaxGuildItems
       /\ HistGuild("command") /\ UNCHANGED activity
  \/ scenario = "play_now" /\ play_now(TRUE) /\ nextItem <= MaxGuildItems
       /\ HistGuild("command") /\ UNCHANGED activity
  \/ scenario = "pause" /\ pause /\ HistGuild("command") /\ UNCHANGED activity
  \/ scenario = "pause" /\ resume /\ HistGuild("command") /\ UNCHANGED activity
  \/ scenario = "disconnect" /\ disconnect_begin /\ HistGuild("command") /\ UNCHANGED activity
  \/ scenario = "disconnect" /\ disconnect_end /\ HistGuild("step") /\ UNCHANGED activity
  \/ (\E t \in Tasks : PlayNextEntry(t, FALSE, 1, FALSE)
                          /\ RecActivity(queue # << >> /\ LiveIn(1), Head(queue))) /\ HistGuild("step")
  \/ (\E t \in Tasks : ConnectDone(t, TRUE, FALSE) /\ RecActivity(TRUE, item[t]))
       /\ HistGuild("step")
  \/ (\E t \in Tasks : CleanDone(t)) /\ HistGuild("step") /\ UNCHANGED activity
  \/ (\E t \in Tasks : PlayNextWake(t)) /\ HistGuild("step") /\ UNCHANGED activity
  \/ (\E c \in Clients : PlayerFinished(c)) /\ HistGuild("step") /\ UNCHANGED activity
  \/ (\E t \in Tasks : DoneEventSet(t)) /\ HistGuild("step") /\ UNCHANGED activity
  \/ scenario = "handler" /\ HandlerConnect(1) /\ nextItem <= MaxGuildItems
       /\ HistGuild("handler") /\ UNCHANGED activity
  \/ scenario = "handler" /\ HandlerConnectDone(TRUE) /\ nextItem <= MaxGuildItems
       /\ HistGuild("handler") /\ UNCHANGED activity
  \/ \E g \in Guilds : Switch(g)

SpecGuilds == InitGuilds /\ [][NextGuilds]_vars

\* Several guilds are playing and disconnect_all is called; the transport's
\* disconnect can fail.
NextAll ==
  \/ queue_sound(FALSE, TRUE) /\ nextItem <= MaxGuildItems /\ HistGuild("command") /\ UNCHANGED activity
  \/ get_queue /\ HistGuild("command") /\ UNCHANGED activity
  \/ (\E t \in Tasks : PlayNextEntry(t, FALSE, 1, FALSE)
                          /\ RecActivity(queue # << >> /\ LiveIn(1), Head(queue))) /\ HistGuild("step")
  \/ (\E t \in Tasks : ConnectDone(t, TRUE, FALSE) /\ RecActivity(TRUE, item[t]))
       /\ HistGuild("step")
  \/ (\E t \in Tasks : CleanDone(t)) /\ HistGuild("step") /\ UNCHANGED activity
  \/ (\E t \in Tasks : PlayNextWake(t)) /\ HistGuild("step") /\ UNCHANGED activity
  \/ (\E c \in Clients : PlayerFinished(c)) /\ HistGuild("step") /\ UNCHANGED activity
  \/ (\E t \in Tasks : DoneEventSet(t)) /\ HistGuild("step") /\ UNCHANGED activity
  \/ \E g \in Guilds : Switch(g)
  \/ DisconnectAllCall
  \/ DaDisconnect
  \/ \E ok \in BOOLEAN : DaDisconnectEnd(ok)

SpecAll == Init /\ [][NextAll]_vars

\* stop lines 401-413: discard.done also holds the items that are current or
\* queued when a stop that succeeds is called.
RecStopped(cmd) ==
  LET kept == Range(queue) \cup ({current} \ {None}) IN
  discard' = IF cmd = "stop" /\ ret'.ok
             THEN [discard EXCEPT !.done = @ \cup kept]
             ELSE discard

\* All commands on the guild of Spec, observed for what a stop discards.
HistStop(cmd) ==
  /\ RecStopped(cmd)
  /\ RecStarted
  /\ UNCHANGED <<clip_pos, inserts, watch, stopped_paused>>
  /\ UNCHANGED fvars
  /\ UNCHANGED xvars
  /\ UNCHANGED gvars

NextStop ==
  \/ (\E pn \in BOOLEAN : queue_sound(pn, TRUE)) /\ HistStop("command")
  \/ play_now(TRUE) /\ HistStop("play_now")
  \/ skip /\ HistStop("command")
  \/ stop /\ HistStop("stop")
  \/ pause /\ HistStop("command")
  \/ resume /\ HistStop("command")
  \/ (\E t \in Tasks : PlayNextEntry(t, FALSE, 1, FALSE)) /\ HistStop("step")
  \/ (\E t \in Tasks : ConnectDone(t, TRUE, FALSE)) /\ HistStop("step")
  \/ (\E t \in Tasks : PlayNextWake(t)) /\ HistStop("step")
  \/ (\E c \in Clients : PlayerFinished(c)) /\ HistStop("step")
  \/ (\E t \in Tasks : DoneEventSet(t)) /\ HistStop("step")

SpecStop == Init /\ [][NextStop]_vars

\* play_now line 379: watch.mode is "armed" from a play_now that returns
\* success with item z until the next facade command or the next start of a
\* playback.
RecPlayNow(cmd) ==
  watch' =
    CASE cmd = "play_now" -> [mode |-> "armed", z |-> nextItem, x |-> current, off |-> 0]
      [] cmd = "command" -> NoWatch
      [] OTHER -> IF StartedNow = {} THEN watch ELSE NoWatch

\* All commands on the guild of Spec, observed for what starts after a
\* play_now.
HistNow(cmd) ==
  /\ RecPlayNow(cmd)
  /\ RecStarted
  /\ UNCHANGED <<clip_pos, inserts, stopped_paused>>
  /\ UNCHANGED qvars
  /\ UNCHANGED xvars
  /\ UNCHANGED gvars

NextNow ==
  \/ (\E pn \in BOOLEAN : queue_sound(pn, TRUE)) /\ HistNow("command")
  \/ play_now(TRUE) /\ HistNow("play_now")
  \/ skip /\ HistNow("command")
  \/ stop /\ HistNow("command")
  \/ pause /\ HistNow("command")
  \/ resume /\ HistNow("command")
  \/ (\E t \in Tasks : PlayNextEntry(t, FALSE, 1, FALSE)) /\ HistNow("step")
  \/ (\E t \in Tasks : ConnectDone(t, TRUE, FALSE)) /\ HistNow("step")
  \/ (\E t \in Tasks : PlayNextWake(t)) /\ HistNow("step")
  \/ (\E c \in Clients : PlayerFinished(c)) /\ HistNow("step")
  \/ (\E t \in Tasks : DoneEventSet(t)) /\ HistNow("step")

SpecNow == Init /\ [][NextNow]_vars

\* The tasks whose popped item fails in this step (lines 212-216: the file is
\* missing; lines 271-274: creating the source or voice_client.play raises),
\* and the items that fail.
FailedTasks ==
  {t \in Tasks : /\ pc'[t] = "entry" /\ running' = t
                 /\ \/ pc[t] = "connecting"
                    \/ pc[t] = "entry" /\ queue' # queue}
FailedNow == {item'[t] : t \in FailedTasks}

\* discard.done also holds the items that have failed.
RecFailed == discard' = [discard EXCEPT !.done = @ \cup FailedNow]

\* All commands on the guild of Spec; files can be missing and creating the
\* audio source can fail.
HistBad ==
  /\ RecFailed
  /\ RecStarted
  /\ UNCHANGED <<clip_pos, inserts, watch, stopped_paused>>
  /\ UNCHANGED fvars
  /\ UNCHANGED xvars
  /\ UNCHANGED gvars

NextBad ==
  \/ (\E pn \in BOOLEAN : queue_sound(pn, TRUE)) /\ HistBad
  \/ play_now(TRUE) /\ HistBad
  \/ skip /\ HistBad
  \/ stop /\ HistBad
  \/ pause /\ HistBad
  \/ resume /\ HistBad
  \/ (\E t \in Tasks, missing \in BOOLEAN, bad \in BOOLEAN :
        PlayNextEntry(t, missing, 1, bad)) /\ HistBad
  \/ (\E t \in Tasks, bad \in BOOLEAN : ConnectDone(t, TRUE, bad)) /\ HistBad
  \/ (\E t \in Tasks : PlayNextWake(t)) /\ HistBad
  \/ (\E c \in Clients : PlayerFinished(c)) /\ HistBad
  \/ (\E t \in Tasks : DoneEventSet(t)) /\ HistBad

SpecBad == Init /\ [][NextBad]_vars

\* The facade commands whose body runs inside `async with
\* self._locks[guild.id]` (line 297 is the only use of _locks).
LockingCommands == {"queue_sound"}

\* The lock is acquired at line 297 and released when queue_sound returns;
\* nothing is awaited in between.
RecLock(cmd) == lock_held' = (cmd \in LockingCommands)

\* All commands, disconnect included, observed for the lock they hold.
HistLock(cmd) ==
  /\ RecLock(cmd)
  /\ UNCHANGED <<guild, parked, reg, activity, da_pc, da_todo, da_log, scenario, user>>
  /\ UNCHANGED hvars
  /\ UNCHANGED qvars
  /\ UNCHANGED xvars

NextLock ==
  \/ (\E pn \in BOOLEAN : queue_sound(pn, TRUE)) /\ HistLock("queue_sound")
  \/ play_now(TRUE) /\ HistLock("play_now")
  \/ skip /\ HistLock("skip")
  \/ stop /\ HistLock("stop")
  \/ pause /\ HistLock("pause")
  \/ resume /\ HistLock("resume")
  \/ disconnect_begin /\ HistLock("disconnect")
  \/ disconnect_end /\ HistLock("disconnect")
  \/ (\E t \in Tasks : PlayNextEntry(t, FALSE, 1, FALSE)) /\ HistLock("step")
  \/ (\E t \in Tasks : ConnectDone(t, TRUE, FALSE)) /\ HistLock("step")
  \/ (\E t \in Tasks : CleanDone(t)) /\ HistLock("step")
  \/ (\E t \in Tasks : PlayNextWake(t)) /\ HistLock("step")
  \/ (\E c \in Clients : PlayerFinished(c)) /\ HistLock("step")
  \/ (\E t \in Tasks : DoneEventSet(t)) /\ HistLock("step")

SpecLock == Init /\ [][NextLock]_vars

\* The commands of Spec without play_now and without the clock, under a fair
\* scheduler: the event loop runs every task that is ready (a task at its
\* entry, a task whose connect has returned, a task whose done_event is
\* set), it runs every callback handed to it, and the transport plays every
\* source it is streaming to its end.
HistLive == UNCHANGED <<hvars, qvars, xvars, gvars>>

TaskStep(t) ==
  \/ PlayNextEntry(t, FALSE, 1, FALSE)
  \/ ConnectDone(t, TRUE, FALSE)
  \/ PlayNextWake(t)

TransportStep == \E c \in Clients : PlayerFinished(c)

LoopCallback == \E t \in Tasks : DoneEventSet(t)

NextLive ==
  \/ queue_sound(FALSE, TRUE) /\ HistLive
  \/ skip /\ HistLive
  \/ stop /\ HistLive
  \/ pause /\ HistLive
  \/ resume /\ HistLive
  \/ (\E t \in Tasks : TaskStep(t)) /\ HistLive
  \/ TransportStep /\ HistLive
  \/ LoopCallback /\ HistLive

Fairness ==
  /\ \A t \in Tasks : WF_vars(TaskStep(t) /\ HistLive)
  /\ WF_vars(TransportStep /\ HistLive)
  /\ WF_vars(LoopCallback /\ HistLive)

SpecLive == Init /\ [][NextLive]_vars /\ Fairness

\* --------------------------------------------------------------- claims
\* C1: at any moment at most one task running _play_next is live (spawned
\* and not yet terminated).
C1_AtMostOneLoop == Cardinality(LiveTasks) <= 1

\* Idle (glossary of the specification): no current item, empty queue, no
\* loop running.
Idle == current = None /\ queue = << >> /\ LiveTasks = {}

\* C4: queue_sound on an Idle session (no current item, empty queue, no loop
\* running) spawns a loop and reports "Playing"; on any other session it
\* reports "Queued (position N)", N = 1 for play_next and the new queue
\* length otherwise, and spawns nothing.
C4_QueueSoundReport ==
  [][\A pn \in BOOLEAN :
       queue_sound(pn, TRUE) =>
         IF Idle
         THEN ret'.ok /\ ret'.n = 0 /\ Cardinality(LiveTasks') = 1
         ELSE ret'.ok /\ ret'.n = (IF pn THEN 1 ELSE Len(queue')) /\ pc' = pc]_vars

\* C2: with queue_sound as the only command, items inserted at the back
\* start streaming in the order of their inserts, and an item inserted with
\* play_next starts before every item that was waiting in the queue when it
\* was inserted: when an item starts, every earlier back-inserted item and
\* every item that was put in front of it has been started.
C2_FifoOrder ==
  [][\A j \in StartedNow :
       /\ ~inserts[j].pn =>
            \A i \in 1..(j - 1) : ~inserts[i].pn => i \in ever_started
       /\ \A k \in 1..(nextItem - 1) :
            (inserts[k].pn /\ j \in inserts[k].ahead) => k \in ever_started]_vars

\* C3: play_now(z) called while the transport is streaming x puts z at the
\* head of the queue and x directly behind it, ahead of everything else; as
\* long as no other command is issued, the next item to start streaming is
\* z, the item that starts after z is x, from the seek position recorded by
\* play_now, and until x has started again it stays queued or is the item a
\* loop is about to play.
C3_PlayNowThenResume ==
  [][/\ (play_now(TRUE) /\ TransportPlaying) =>
          queue' = <<nextItem, Streaming(voice_client)>> \o queue
     /\ (watch.mode = "armed" /\ StartedNow # {}) => StartedNow = {watch.z}
     /\ (watch.mode = "z" /\ StartedNow # {}) =>
          (StartedNow = {watch.x} /\ seek_position[watch.x] = watch.off)
     /\ (watch.mode \in {"armed", "z"} /\ watch'.mode \in {"armed", "z"}) =>
          (watch.x \in Range(queue') \/ current' = watch.x)]_vars

\* C5: when stop is the first command after a play_now(z) that interrupted
\* x, and nothing has started in between, stop succeeds and leaves the
\* queue empty and current None, and neither x nor z starts streaming
\* afterwards.
C5_PlayNowThenStop ==
  [][/\ (stop /\ watch.mode = "armed") =>
          (ret'.ok /\ queue' = << >> /\ current' = None)
     /\ watch.mode = "stopped" => StartedNow \cap {watch.z, watch.x} = {}]_vars

\* play_now then stop has happened and the loop that was streaming x has
\* woken and terminated without starting anything.
C5_Witness ==
  /\ watch.mode = "stopped"
  /\ ret.op = "stop"
  /\ LiveTasks = {}
  /\ queue = << >>
  /\ current = None
  /\ watch.x \in ever_started
  /\ watch.z \notin ever_started

\* C6: stop with a current item or a non-empty queue succeeds, leaves the
\* queue empty, is_paused false and current None, stops the transport iff it
\* is playing, and reports the number of items that were queued; stop with
\* neither fails.
C6_Stop ==
  [][stop =>
       IF current # None \/ queue # << >>
       THEN /\ ret'.ok
            /\ queue' = << >> /\ ~is_paused' /\ current' = None
            /\ ret'.n = Len(queue)
            /\ IF TransportPlaying
               THEN player'[voice_client] = None /\ player[voice_client] \in scheduled'
               ELSE player' = player /\ scheduled' = scheduled
       ELSE ~ret'.ok]_vars

\* A stop has cleared two queued items and stopped the transport; the loop
\* has not woken yet.
C6_Witness ==
  /\ ret = [op |-> "stop", ok |-> TRUE, n |-> 2]
  /\ queue = << >> /\ current = None /\ ~is_paused
  /\ \E t \in Tasks : pc[t] = "waiting" /\ t \in scheduled

\* C7 (the part about the return value): skip succeeds and stops the
\* transport whenever the transport is streaming, and fails without
\* touching the transport otherwise.
C7_Skip ==
  [][skip =>
       IF TransportPlaying
       THEN ret'.ok /\ player'[voice_client] = None /\ player[voice_client] \in scheduled'
       ELSE ~ret'.ok /\ player' = player /\ scheduled' = scheduled]_vars

C9_ResumeRestarts ==
  [][(resume /\ stopped_paused /\ queue # << >> /\ LiveTasks = {}) =>
       (~is_paused' /\ LiveTasks' # {})]_vars

\* C10: an item that is started again is started at the offset up to which
\* its clip had been streamed.
C10_ResumeOffsetExact ==
  [][\A i \in StartedNow : i \in ever_started => seek_position[i] = clip_pos[i]]_vars

\* C18: in every reachable state, is_paused implies that current is not None
\* and that a voice client is stored.
C18_PausedHasCurrent == is_paused => (current # None /\ voice_client # None)

\* C19: in every reachable state the current item is not an element of the
\* queue.
C19_NotQueuedAndCurrent == current # None => current \notin Range(queue)

\* C20: in every reachable state, current = None implies that the session's
\* voice client is not playing an item started by _play_next.
C20_NoCurrentNoStream ==
  current = None => (voice_client = None \/ Streaming(voice_client) = None)

\* C11: when a disconnect completes, voice_client is None, the queue is empty
\* and current is None; and no item that was current or queued when a
\* completed disconnect was called starts streaming afterwards.
C11_Disconnect ==
  [][/\ (disconnect_end \/ (disconnect_begin /\ disc_pc' = "idle")) =>
          (voice_client' = None /\ queue' = << >> /\ current' = None)
     /\ StartedNow \cap discard.done = {}]_vars

\* A facade command is called.
Command ==
  \/ \E pn \in BOOLEAN, exists \in BOOLEAN : queue_sound(pn, exists)
  \/ \E exists \in BOOLEAN : play_now(exists)
  \/ skip
  \/ stop
  \/ pause
  \/ resume

\* C14: a facade command that returns success = False leaves queue, current,
\* is_paused, the voice client, the transport and the loop tasks as they were.
C14_FailureChangesNothing ==
  [][(Command /\ ~ret'.ok) =>
       UNCHANGED <<queue, current, is_paused, voice_client, tvars, pc>>]_vars

\* C12: at every moment the session has at most one live connection, and
\* every live connection is the voice client stored in its state.
C12_OneLiveConnection ==
  /\ Cardinality(connected) <= 1
  /\ \A c \in connected : voice_client = c

\* C13: connect(channel) returns a live handle that targets channel unchanged;
\* it moves a live handle that targets another channel and returns it; it
\* attempts a fresh connect only after a stale handle has been released; no
\* failure of a fresh connect or of a move makes connect raise, and after a
\* failure the stored handle is None or live.
C13_Connect ==
  [][/\ \A t \in Tasks, ch \in Channels :
          (PlayNextEntry(t, FALSE, ch, FALSE) /\ queue # << >> /\ LiveIn(ch)) =>
             (UNCHANGED <<voice_client, connected, vc_channel>>
              /\ pc'[t] \in {"waiting", "entry"})
     /\ \A ch \in Channels :
          (HandlerConnect(ch) /\ LiveIn(ch)) =>
             (UNCHANGED <<voice_client, connected, vc_channel>> /\ h_pc' = "idle")
     /\ \A t \in Tasks :
          (MoveDone(t, TRUE, FALSE) /\ voice_client # None /\ is_connected(voice_client)) =>
             (UNCHANGED <<voice_client, connected>>
              /\ vc_channel'[voice_client] = channel[t])
     /\ \A t \in Tasks :
          (pc[t] # "connecting" /\ pc'[t] = "connecting") => voice_client' = None
     /\ (h_pc # "connecting" /\ h_pc' = "connecting") => voice_client' = None
     /\ \A t \in Tasks : ~MoveDone(t, FALSE, FALSE)
     /\ ~HandlerMoveDone(FALSE)
     /\ ((\E t \in Tasks : ConnectDone(t, FALSE, FALSE)) \/ HandlerConnectDone(FALSE)) =>
          (voice_client' = None \/ voice_client' \in connected')]_vars

\* A member of channel ch is recent: the last recorded activity is less than
\* 30 minutes old.
RecentIn(ch) ==
  {u \in Users : /\ fb_in.loc[u] = ch
                 /\ fb_in.last_active[u] # Never
                 /\ fb_in.at - fb_in.last_active[u] < ActivityTimeout}
UsersIn(ch) == {u \in Users : fb_in.loc[u] = ch}

\* Channel d ranks no higher than channel c in the order (recent non-bot
\* members, non-bot members).
NotAbove(d, c) ==
  \/ Cardinality(RecentIn(d)) < Cardinality(RecentIn(c))
  \/ /\ Cardinality(RecentIn(d)) = Cardinality(RecentIn(c))
     /\ Cardinality(UsersIn(d)) <= Cardinality(UsersIn(c))

\* C16: find_best_channel returns the requester's voice channel when the
\* requester is in one; otherwise a channel with a non-bot member that is
\* maximal in the order (recent non-bot members, non-bot members), and None
\* exactly when no channel has a non-bot member.
C16_FindBestChannel ==
  fb_out # Unset =>
    IF fb_in.user # None /\ fb_in.loc[fb_in.user] \in Channels
    THEN fb_out = fb_in.loc[fb_in.user]
    ELSE /\ fb_out = None <=> \A ch \in Channels : UsersIn(ch) = {}
         /\ fb_out # None =>
              /\ fb_out \in Channels
              /\ UsersIn(fb_out) # {}
              /\ \A d \in Channels : UsersIn(d) # {} => NotAbove(d, fb_out)

\* Nobody requests; channel 1 has 3 members of whom 1 is recent, channel 2
\* has 2 members who are both recent, and channel 2 is returned.
C16_Witness ==
  /\ fb_in.user = None
  /\ Cardinality(UsersIn(1)) = 3 /\ Cardinality(RecentIn(1)) = 1
  /\ Cardinality(UsersIn(2)) = 2 /\ Cardinality(RecentIn(2)) = 2
  /\ fb_out = 2
\* Session s has no connection, an empty queue and no current item.
Disconnected(s) == s.voice_client = None /\ s.queue = << >> /\ s.current = None

\* C15: disconnect_all attempts disconnect on every session that is in the
\* registry when it is called; a failure of one disconnect is caught and the
\* remaining sessions are still disconnected; each session whose disconnect
\* returned has no connection, an empty queue and no current item, at that
\* return and when disconnect_all returns; disconnect_all never raises.
C15_DisconnectAll ==
  [][/\ \A g \in Guilds : (da_log[g] # "ok" /\ da_log'[g] = "ok") => Disconnected(SessionOf(g)')
     /\ (da_pc # "done" /\ da_pc' = "done")
          => \A g \in Guilds : /\ da_log'[g] # "pending"
                                /\ da_log'[g] = "ok" => Disconnected(SessionOf(g)')
     /\ da_pc' # "raised"]_vars

\* A loop of session s is suspended: it waits for the end of a playback, for
\* a connect or for the release of a stale client.
Suspended(s) ==
  \E t \in Tasks : \/ s.pc[t] \in {"connecting", "cleaning"}
                    \/ (s.pc[t] = "waiting" /\ ~s.done_event[t])

\* C17: sessions are independent.  A command or loop step of one guild
\* leaves the session of every other guild (queue, current, paused flag,
\* connection, loop, activity record) as it was; and while a loop of another
\* guild is suspended and no synchronous code runs, the commands skip, stop
\* and pause of this guild, the steps its loop is ready for, the completion
\* callbacks handed to the event loop, and the steps of any other guild can
\* be taken.
C17_Independent ==
  [][/\ \A g \in Guilds : (g # guild \/ guild' # guild) => SessionOf(g)' = SessionOf(g)
     /\ (running = None /\ \E g \in Guilds \ {guild} : Suspended(SessionOf(g)))
          => /\ ENABLED (skip /\ HistGuild("command") /\ UNCHANGED activity)
             /\ ENABLED (stop /\ HistGuild("command") /\ UNCHANGED activity)
             /\ ENABLED (pause /\ HistGuild("command") /\ UNCHANGED activity)
             /\ \A t \in Tasks :
                  /\ pc[t] = "entry"
                       => ENABLED (PlayNextEntry(t, FALSE, 1, FALSE)
                                   /\ RecActivity(queue # << >> /\ LiveIn(1), Head(queue))
                                   /\ HistGuild("step"))
                  /\ (pc[t] = "waiting" /\ done_event[t])
                       => ENABLED (PlayNextWake(t) /\ HistGuild("step") /\ UNCHANGED activity)
                  /\ t \in scheduled
                       => ENABLED (DoneEventSet(t) /\ HistGuild("step") /\ UNCHANGED activity)
             /\ \A g \in Guilds \ {guild} : ENABLED Switch(g)]_vars

\* Two guilds stream their own items at the same time, each loop waiting for
\* the end of its playback, after a command of the guild in focus.
C17_Witness ==
  \E g \in Guilds \ {guild} :
     /\ SessionOf(g).current # None
     /\ SessionOf(g).voice_client # None
     /\ Suspended(SessionOf(g))
     /\ current # None
     /\ current # SessionOf(g).current
     /\ Suspended(Session)
     /\ activity # Never
     /\ ret.op = "pause" /\ ret.ok

\* C29: in every reachable state, a session with a current item has a live
\* PlaybackLoop (a _play_next task that was spawned and has not ended).
C29_CurrentHasLoop == current # None => LiveTasks # {}

\* C27: after a stop that returned success, no item that was current or
\* queued when that stop was called starts streaming, also when the loop had
\* popped the item and was suspended in connect.
C27_StopDiscards == [][StartedNow \cap discard.done = {}]_vars

\* The step is a play_now that accepted its item.
PlayNowStep == ret'.op = "play_now" /\ ret'.ok /\ nextItem' = nextItem + 1

\* C26: a play_now that interrupts a streaming item whose
\* current_started_at is set raises that item's seek_position by exactly
\* now - current_started_at, on top of the offset it had, and pushes the item
\* to the front of the queue (behind the new item); no other step changes a
\* seek_position; the loop clears current_started_at when it wakes.
C26_SeekPosition ==
  [][/\ (PlayNowStep /\ Interrupting /\ current_started_at # -1)
          => /\ seek_position'[current] = seek_position[current] + (now - current_started_at)
             /\ \A i \in Items \ {current} : seek_position'[i] = seek_position[i]
             /\ Len(queue') = Len(queue) + 2
             /\ queue'[2] = current
     /\ ~(PlayNowStep /\ Interrupting /\ current_started_at # -1)
          => seek_position' = seek_position
     /\ \A t \in Tasks : (pc[t] = "waiting" /\ pc'[t] # "waiting")
          => current_started_at' = -1]_vars

\* An item that was started at time 1 with offset 1 has been interrupted
\* again at time 2: its seek_position is the sum.
C26_Witness ==
  /\ ret.op = "play_now"
  /\ Len(queue) >= 2
  /\ queue[2] = current
  /\ current_started_at = 1
  /\ now = 2
  /\ seek_position[current] = 2

\* C30: after a play_now that returned success with item z, and before any
\* other facade command, the first item that starts streaming is z, whatever
\* the state play_now was called in.
C30_PlayNowNext ==
  [][(watch.mode = "armed" /\ StartedNow # {}) => StartedNow = {watch.z}]_vars

\* C22: when the loop finds no channel for the popped item, or connect
\* returns None, the item is dropped (it is neither current nor queued) and
\* the rest of the queue is still played: the loop ends only when the queue
\* is empty or another loop is live.
C22_DropAndContinue ==
  [][\A t \in Tasks :
       (pc[t] \in {"entry", "connecting", "cleaning"} /\ pc'[t] = "free")
         => /\ current' = None
            /\ item'[t] \notin Range(queue')
            /\ (queue' = << >> \/ LiveTasks' # {})]_vars

\* Task t goes on with _play_next at once, and the item it had popped is
\* not in the queue.
Advances(t) == pc'[t] = "entry" /\ running' = t /\ item'[t] \notin Range(queue')

\* C23: when the popped item's file is missing, or creating the source or
\* starting the playback raises, the item is dropped and the loop calls
\* _play_next again at once; that call pops the head of the queue, whose
\* order is untouched, or ends the loop with current None when the queue is
\* empty; once the call chain has settled, no failed item is current or
\* queued.
C23_BadItemSkipped ==
  [][/\ \A t \in Tasks :
          /\ (PlayNextEntry(t, TRUE, 1, FALSE) /\ queue # << >>)
               => (Advances(t) /\ queue' = Tail(queue))
          /\ (PlayNextEntry(t, FALSE, 1, TRUE) /\ queue # << >> /\ LiveIn(1))
               => (Advances(t) /\ queue' = Tail(queue) /\ current' = None)
          /\ ConnectDone(t, TRUE, TRUE)
               => (Advances(t) /\ queue' = queue /\ current' = None)
          /\ (running = t /\ pc[t] = "entry")
               => IF queue = << >>
                  THEN current' = None /\ pc'[t] = "free"
                  ELSE item'[t] = Head(queue) /\ queue' = Tail(queue)
     /\ running' = None
          => (current' \notin discard'.done /\ Range(queue') \cap discard'.done = {})]_vars

\* Two items have failed and a later item is streaming as the current item.
C23_Witness ==
  /\ Cardinality(discard.done) >= 2
  /\ \E t \in Tasks : /\ pc[t] = "waiting"
                        /\ current = item[t]
                        /\ voice_client # None /\ Streaming(voice_client) = item[t]
                        /\ \A f \in discard.done : f < item[t]

\* C24: no failure inside the loop ends the task with an unhandled
\* exception, and after the failure the failed item is not current: when
\* connect returns None the loop returns with current None; when the move of
\* the live connection raises, a handler of the loop catches the exception
\* (the task goes on with _play_next) and the item is not current.
C24_LoopAbsorbsFailures ==
  [][\A t \in Tasks :
       /\ ConnectDone(t, FALSE, FALSE) => (pc'[t] = "free" /\ current' = None)
       /\ MoveDone(t, FALSE, FALSE) => (pc'[t] = "entry" /\ current' # item[t])]_vars

\* C21: every facade command (queue_sound, play_now, skip, stop, pause,
\* resume, disconnect) that changes the queue, the current item or the
\* paused flag does so while it holds the session's lock.
C21_MutationsUnderLock ==
  [][((Command \/ disconnect_begin \/ disconnect_end)
        /\ <<queue, current, is_paused>>' # <<queue, current, is_paused>>) => lock_held']_vars

\* C25: after a skip that returned success the loop runs the completion
\* callback and the waiting loop is woken; after
\* a stop that returned success, also one issued while the session was
\* paused, the loop ends and the session becomes Idle, unless another
\* command is issued first.
C25_StopTerminates ==
  /\ (ret.op = "skip" /\ ret.ok)
       ~> (\A t \in Tasks : ~(pc[t] = "waiting" /\ (done_event[t] \/ t \in scheduled)))
  /\ (ret.op = "stop" /\ ret.ok) ~> (Idle \/ ~(ret.op = "stop" /\ ret.ok))

\* C28: in every reachable state with a non-empty queue and is_paused
\* false, a PlaybackLoop is live for the session.
C28_NoItemStranded == (queue # << >> /\ ~is_paused) => LiveTasks # {}

====
